---- MODULE Spec2Model ----
(***************************************************************************)
(* Scheduling and broadcast-delivery engine of the bot (src/bot).          *)
(*                                                                         *)
(* The store (src/bot/db.py) is modelled as tables keyed by primary key.   *)
(* Every Database method is one atomic step: all tasks share one           *)
(* connection, so statements take effect in the order they are awaited.    *)
(* The scheduler task (src/bot/scheduler.py) is modelled with one action   *)
(* per awaited call; handlers of other tasks may run between two of them.  *)
(* Time is time.time() in seconds; the local calendar is taken at UTC.     *)
(***************************************************************************)
EXTENDS Integers, Sequences, FiniteSets, TLC

\* Python's None / SQL NULL for nullable integer columns (all real values >= 0)
None == 0 - 1

\* Python's None for an optional string
NoneStr == "None"

Min(a, b) == IF a <= b THEN a ELSE b

(***************************************************************************)
(* Bounds of the model                                                     *)
(***************************************************************************)
\* seconds of wall-clock time explored after the process starts
MaxElapsed == 130
\* iterations of the tick loop explored
MaxTicks == 2
\* number of events of the environment in one behaviour: a store call that
\* raises, a delivery that takes noticeable time, an admin request
MaxEvents == 2
\* duration in seconds of a slow delivery that spans more than a minute
LongSend == 120
\* duration in seconds of a slow delivery that ends in the next minute
ShortSend == 60
\* calls of send_post_to_all_subscribers explored
MaxBroadcasts == 2

\* page size of the fan-out (1000 in the source, scaled so that the
\* subscribers of the model fill more than one page)
batch == 1
\* period of the tick loop in seconds
SleepSeconds == 5

\* the process starts on Monday 2024-01-01 at 09:00:00
StartTime == 19723 * 86400 + 9 * 3600
EndTime == StartTime + MaxElapsed

Users == {1, 2}
\* the subscribers of the runs that explore send_post_to_all_subscribers
Recipients == {1, 2, 3}
PostIds == {1, 2, 3}
ScheduleIds == {1, 2}
WeeklyIds == {1, 2}

VARIABLES
    clock,                    \* time.time()
    posts,                    \* ids of the rows of table posts
    post_stats,               \* table post_stats
    subscribers,              \* table subscribers
    schedules,                \* table schedules
    weekly_schedules,         \* table weekly_schedules
    pc,                       \* position of the scheduler task
    now_ts,                   \* start_scheduler: now_ts
    last_weekly_check_minute, \* start_scheduler: last_weekly_check_minute
    phase,                    \* "oneoff" in _run_due_schedules, "weekly" in _run_weekly
    due,                      \* the list the running resolver returned
    idx,                      \* index in due of the item being processed
    ymd,                      \* _run_weekly: ymd
    post,                     \* id of the post being fanned out
    offset,                   \* _send_post_to_all_subscribers: offset
    users,                    \* _send_post_to_all_subscribers: users
    uidx,                     \* index in users of the current recipient
    success_total,            \* _send_post_to_all_subscribers: success_total
    events,                   \* events of the environment so far
    ticks,                    \* iterations of the tick loop started so far
    tickDue,                  \* ids the Due Resolver returned in this tick
    weeklyDue,                \* ids the Weekly Resolver returned in this tick
    processed,                \* <<kind, id>> marked in this tick
    failed,                   \* <<kind, id>> whose processing raised in this tick
    missing,                  \* <<kind, id>> whose post was not found in this tick
    visited,                  \* the minute the Weekly Resolver evaluated in this tick
    raised,                   \* TRUE once a store call has raised
    attempted,                \* recipients attempted in the current fan-out
    startActive,              \* subscribers active when the current fan-out started
    examined,                 \* minutes the Weekly Resolver has evaluated
    fired,                    \* <<kind, id, ymd>> of the fan-outs started
    b_pc,                     \* position of the handler running send_post_to_all_subscribers
    b_offset,                 \* send_post_to_all_subscribers: offset
    b_users,                  \* send_post_to_all_subscribers: users
    b_uidx,                   \* index in b_users of the current recipient
    sent_count,               \* send_post_to_all_subscribers: sent_count
    blocked_count,            \* send_post_to_all_subscribers: blocked_count
    stats,                    \* fast_post_button_text: stats, the dictionary returned
    broadcasts,               \* calls of send_post_to_all_subscribers so far
    b_delivered,              \* recipients of the current call whose delivery succeeded
    b_forbidden,              \* recipients of the current call that failed permanently
    b_transient,              \* recipients of the current call that failed otherwise
    b_startActive,            \* subscribers active when the current call started
    blockedBefore,            \* permanent failures of the earlier calls that returned
    reported,                 \* the dictionaries returned so far, in order
    blockedUsers,             \* subscribers a permanent failure deactivated, no contact since
    reactivated,              \* subscribers a contact activated again after that
    lateMarks,                \* one-off schedules marked after they were terminated
    lateContact,              \* subscribers whose contact was handled between the
                              \* permanent failure of their attempt and the deactivation
    link_override,            \* send_post_to_chat: link_override
    button_text_override,     \* send_post_to_chat: button_text_override
    global_link,              \* settings row "global_link"
    global_button_text,       \* settings row "global_button_text"
    reply_markup              \* send_post_to_chat: the buttons of reply_markup

dbvars == <<posts, post_stats, subscribers, schedules, weekly_schedules>>
loopvars == <<now_ts, last_weekly_check_minute, phase, due, idx, ymd>>
fanvars == <<post, offset, users, uidx, success_total>>
tickghosts == <<tickDue, weeklyDue, processed, failed, missing, visited>>
fanghosts == <<attempted, startActive>>
subghosts == <<blockedUsers, reactivated, lateContact>>
rendervars == <<link_override, button_text_override, global_link, global_button_text,
                reply_markup>>
bvars == <<b_pc, b_offset, b_users, b_uidx, sent_count, blocked_count, stats, broadcasts,
           b_delivered, b_forbidden, b_transient, b_startActive, blockedBefore, reported>>
vars == <<clock, posts, post_stats, subscribers, schedules, weekly_schedules,
          pc, now_ts, last_weekly_check_minute, phase, due, idx, ymd,
          post, offset, users, uidx, success_total, events, ticks,
          tickDue, weeklyDue, processed, failed, missing, visited, raised,
          attempted, startActive, examined, fired,
          b_pc, b_offset, b_users, b_uidx, sent_count, blocked_count, stats, broadcasts,
          b_delivered, b_forbidden, b_transient, b_startActive, blockedBefore, reported,
          blockedUsers, reactivated, lateContact, lateMarks,
          link_override, button_text_override, global_link, global_button_text,
          reply_markup>>

(***************************************************************************)
(* Calendar: datetime.now() of scheduler._current_local_minute             *)
(***************************************************************************)
DayOf(t) == t \div 86400

\* date of day number z since 1970-01-01 as year * 10000 + month * 100 + day
YmdOfDay(days) ==
    LET z == days + 719468
        era == z \div 146097
        doe == z - era * 146097
        yoe == (doe - doe \div 1460 + doe \div 36524 - doe \div 146096) \div 365
        doy == doe - (365 * yoe + yoe \div 4 - yoe \div 100)
        mp == (5 * doy + 2) \div 153
        d == doy - (153 * mp + 2) \div 5 + 1
        m == IF mp < 10 THEN mp + 3 ELSE mp - 9
        y == yoe + era * 400 + (IF m <= 2 THEN 1 ELSE 0)
    IN  y * 10000 + m * 100 + d

\* Monday = 0 .. Sunday = 6 (1970-01-01 was a Thursday)
WeekdayOfDay(days) == (days + 3) % 7

current_local_minute(t) ==
    [wday |-> WeekdayOfDay(DayOf(t)),
     hour |-> (t \div 3600) % 24,
     minute |-> (t \div 60) % 60,
     ymd |-> YmdOfDay(DayOf(t))]

\* the clock after d more seconds (time stops at the end of the explored window)
After(t, d) == Min(t + d, EndTime)

(***************************************************************************)
(* Store: src/bot/db.py                                                    *)
(***************************************************************************)
RECURSIVE SeqAsc(_)
SeqAsc(S) ==
    IF S = {} THEN <<>>
    ELSE LET m == CHOOSE x \in S : \A y \in S : x <= y
         IN  <<m>> \o SeqAsc(S \ {m})

\* ORDER BY joined_at DESC; rows of equal joined_at come in rowid order
RECURSIVE OrderByJoinedDesc(_, _)
OrderByJoinedDesc(S, subs) ==
    IF S = {} THEN <<>>
    ELSE LET u == CHOOSE x \in S : \A y \in S :
                     \/ subs[x].joined_at > subs[y].joined_at
                     \/ subs[x].joined_at = subs[y].joined_at /\ x <= y
         IN  <<u>> \o OrderByJoinedDesc(S \ {u}, subs)

\* the lookup answers with a post whether or not the row exists
get_post_unchecked(ps, post_id) == post_id

get_post(ps, post_id) == IF post_id \in ps THEN post_id ELSE None

delete_post(db, post_id) ==
    [posts |-> db.posts \ {post_id},
     post_stats |-> [p \in DOMAIN db.post_stats \ {post_id} |-> db.post_stats[p]],
     schedules |-> [s \in {x \in DOMAIN db.schedules : db.schedules[x].post_id # post_id}
                        |-> db.schedules[s]],
     weekly_schedules |-> [w \in {x \in DOMAIN db.weekly_schedules :
                                      db.weekly_schedules[x].post_id # post_id}
                               |-> db.weekly_schedules[w]]]

\* the count of the fan-out replaces the stored count
increment_post_delivery_overwrite(rows, post_id, delivered, now) ==
    [p \in DOMAIN rows |->
        IF p = post_id
        THEN [delivered_count |-> delivered, last_delivered_at |-> now]
        ELSE rows[p]]

increment_post_delivery(rows, post_id, delivered, now) ==
    [p \in DOMAIN rows |->
        IF p = post_id
        THEN [delivered_count |-> rows[p].delivered_count + delivered,
              last_delivered_at |-> now]
        ELSE rows[p]]

\* ON CONFLICT also sets joined_at = excluded.joined_at
add_or_update_subscriber_rejoined(subs, user_id, now) ==
    [u \in DOMAIN subs \cup {user_id} |->
        IF u = user_id THEN [is_active |-> TRUE, joined_at |-> now] ELSE subs[u]]

add_or_update_subscriber(subs, user_id, now) ==
    IF user_id \in DOMAIN subs
    THEN [subs EXCEPT ![user_id].is_active = TRUE]
    ELSE [u \in DOMAIN subs \cup {user_id} |->
            IF u = user_id THEN [is_active |-> TRUE, joined_at |-> now] ELSE subs[u]]

\* the UPDATE has no WHERE clause
set_subscriber_active_everyone(subs, user_id, active) ==
    [u \in DOMAIN subs |-> [subs[u] EXCEPT !.is_active = active]]

\* the UPDATE reaches no row
set_subscriber_active_lost(subs, user_id, active) == subs

set_subscriber_active(subs, user_id, active) ==
    [u \in DOMAIN subs |->
        IF u = user_id THEN [subs[u] EXCEPT !.is_active = active] ELSE subs[u]]

\* the query has no OFFSET: every call returns the first page
list_active_subscribers_first_page(subs, limit, off) ==
    LET all == OrderByJoinedDesc({u \in DOMAIN subs : subs[u].is_active}, subs)
    IN  SubSeq(all, 1, Min(limit, Len(all)))

list_active_subscribers(subs, limit, off) ==
    LET all == OrderByJoinedDesc({u \in DOMAIN subs : subs[u].is_active}, subs)
    IN  SubSeq(all, off + 1, Min(off + limit, Len(all)))

\* the query has no `is_paused = 0`
list_due_schedules_with_paused(scheds, now) ==
    LET ids == SeqAsc({s \in DOMAIN scheds :
                          /\ ~scheds[s].is_deleted
                          /\ scheds[s].next_run_at <= now})
    IN  [i \in 1..Len(ids) |->
            [id |-> ids[i],
             post_id |-> scheds[ids[i]].post_id,
             next_run_at |-> scheds[ids[i]].next_run_at,
             repeat_interval |-> scheds[ids[i]].repeat_interval]]

list_due_schedules(scheds, now) ==
    LET ids == SeqAsc({s \in DOMAIN scheds :
                          /\ ~scheds[s].is_deleted
                          /\ ~scheds[s].is_paused
                          /\ scheds[s].next_run_at <= now})
    IN  [i \in 1..Len(ids) |->
            [id |-> ids[i],
             post_id |-> scheds[ids[i]].post_id,
             next_run_at |-> scheds[ids[i]].next_run_at,
             repeat_interval |-> scheds[ids[i]].repeat_interval]]

\* a schedule without repeat is stamped but left due
mark_schedule_left_due(scheds, schedule_id, repeat_interval, now) ==
    [s \in DOMAIN scheds |->
        IF s # schedule_id THEN scheds[s]
        ELSE IF repeat_interval # None /\ repeat_interval > 0
             THEN [scheds[s] EXCEPT !.last_run_at = now,
                                    !.next_run_at = scheds[s].next_run_at + repeat_interval]
             ELSE [scheds[s] EXCEPT !.last_run_at = now]]

\* the next run counted from the time of the run instead of the scheduled time
mark_schedule_from_now(scheds, schedule_id, repeat_interval, now) ==
    [s \in DOMAIN scheds |->
        IF s # schedule_id THEN scheds[s]
        ELSE IF repeat_interval # None /\ repeat_interval > 0
             THEN [scheds[s] EXCEPT !.last_run_at = now,
                                    !.next_run_at = now + repeat_interval]
             ELSE [scheds[s] EXCEPT !.last_run_at = now, !.is_deleted = TRUE]]

\* the UPDATE of a repeating schedule arms it again (is_deleted = 0)
mark_schedule_rearmed(scheds, schedule_id, repeat_interval, now) ==
    [s \in DOMAIN scheds |->
        IF s # schedule_id THEN scheds[s]
        ELSE IF repeat_interval # None /\ repeat_interval > 0
             THEN [scheds[s] EXCEPT !.last_run_at = now,
                                    !.next_run_at = scheds[s].next_run_at + repeat_interval,
                                    !.is_deleted = FALSE]
             ELSE [scheds[s] EXCEPT !.last_run_at = now, !.is_deleted = TRUE]]

\* a repeating schedule is advanced past the time of the run in one step,
\* skipping the runs it missed
mark_schedule_caught_up(scheds, schedule_id, repeat_interval, now) ==
    [s \in DOMAIN scheds |->
        IF s # schedule_id THEN scheds[s]
        ELSE IF repeat_interval # None /\ repeat_interval > 0
             THEN [scheds[s] EXCEPT
                     !.last_run_at = now,
                     !.next_run_at = scheds[s].next_run_at + repeat_interval
                        * ((IF now >= scheds[s].next_run_at
                            THEN (now - scheds[s].next_run_at) \div repeat_interval
                            ELSE 0) + 1)]
             ELSE [scheds[s] EXCEPT !.last_run_at = now, !.is_deleted = TRUE]]

\* the UPDATE has no WHERE clause: every schedule is marked
mark_schedule_every_row(scheds, schedule_id, repeat_interval, now) ==
    [s \in DOMAIN scheds |->
        IF repeat_interval # None /\ repeat_interval > 0
        THEN [scheds[s] EXCEPT !.last_run_at = now,
                               !.next_run_at = scheds[s].next_run_at + repeat_interval]
        ELSE [scheds[s] EXCEPT !.last_run_at = now, !.is_deleted = TRUE]]

mark_schedule_after_run(scheds, schedule_id, repeat_interval, now) ==
    [s \in DOMAIN scheds |->
        IF s # schedule_id THEN scheds[s]
        ELSE IF repeat_interval # None /\ repeat_interval > 0
             THEN [scheds[s] EXCEPT !.last_run_at = now,
                                    !.next_run_at = scheds[s].next_run_at + repeat_interval]
             ELSE [scheds[s] EXCEPT !.last_run_at = now, !.is_deleted = TRUE]]

\* (days_mask & (1 << wday)) != 0
BitSet(mask, wday) == (mask \div (2 ^ wday)) % 2 = 1

\* the query does not look at last_run_ymd
list_weekly_due_every_tick(wk, wday, hour, minute, today_ymd) ==
    LET ids == SeqAsc({w \in DOMAIN wk :
                          /\ ~wk[w].is_paused
                          /\ wk[w].hour = hour
                          /\ wk[w].minute = minute
                          /\ BitSet(wk[w].days_mask, wday)})
    IN  [i \in 1..Len(ids) |-> [id |-> ids[i], post_id |-> wk[ids[i]].post_id]]

\* a schedule whose time of day has passed is returned as well
list_weekly_due_catch_up(wk, wday, hour, minute, today_ymd) ==
    LET ids == SeqAsc({w \in DOMAIN wk :
                          /\ ~wk[w].is_paused
                          /\ wk[w].hour * 60 + wk[w].minute <= hour * 60 + minute
                          /\ BitSet(wk[w].days_mask, wday)
                          /\ (wk[w].last_run_ymd = None \/ wk[w].last_run_ymd # today_ymd)})
    IN  [i \in 1..Len(ids) |-> [id |-> ids[i], post_id |-> wk[ids[i]].post_id]]

list_weekly_due(wk, wday, hour, minute, today_ymd) ==
    LET ids == SeqAsc({w \in DOMAIN wk :
                          /\ ~wk[w].is_paused
                          /\ wk[w].hour = hour
                          /\ wk[w].minute = minute
                          /\ BitSet(wk[w].days_mask, wday)
                          /\ (wk[w].last_run_ymd = None \/ wk[w].last_run_ymd # today_ymd)})
    IN  [i \in 1..Len(ids) |-> [id |-> ids[i], post_id |-> wk[ids[i]].post_id]]

\* the schedule is paused once it has run
mark_weekly_ran_and_pause(wk, schedule_id, today_ymd) ==
    [w \in DOMAIN wk |->
        IF w = schedule_id
        THEN [wk[w] EXCEPT !.last_run_ymd = today_ymd, !.is_paused = TRUE]
        ELSE wk[w]]

mark_weekly_ran(wk, schedule_id, today_ymd) ==
    [w \in DOMAIN wk |->
        IF w = schedule_id THEN [wk[w] EXCEPT !.last_run_ymd = today_ymd] ELSE wk[w]]

set_schedule_paused(scheds, schedule_id, paused) ==
    [s \in DOMAIN scheds |->
        IF s = schedule_id THEN [scheds[s] EXCEPT !.is_paused = paused] ELSE scheds[s]]

delete_schedule(scheds, schedule_id) ==
    [s \in DOMAIN scheds |->
        IF s = schedule_id THEN [scheds[s] EXCEPT !.is_deleted = TRUE] ELSE scheds[s]]

delete_weekly_schedule(wk, schedule_id) ==
    [w \in DOMAIN wk \ {schedule_id} |-> wk[w]]


(***************************************************************************)
(* Initial state: the tables as an earlier run left them, the scheduler    *)
(* task at the top of start_scheduler                                      *)
(***************************************************************************)
Schedule(p, t, r) ==
    [post_id |-> p, next_run_at |-> t, repeat_interval |-> r,
     is_paused |-> FALSE, is_deleted |-> FALSE, last_run_at |-> None]

Weekly(p, h, m, mask, last) ==
    [post_id |-> p, hour |-> h, minute |-> m, days_mask |-> mask,
     is_paused |-> FALSE, last_run_ymd |-> last]

InitLocals ==
    /\ pc = "tick"
    /\ now_ts = None
    /\ last_weekly_check_minute = None
    /\ phase = "idle"
    /\ due = <<>>
    /\ idx = 0
    /\ ymd = None
    /\ post = None
    /\ offset = 0
    /\ users = <<>>
    /\ uidx = 0
    /\ success_total = 0
    /\ events = 0
    /\ ticks = 0
    /\ tickDue = {}
    /\ weeklyDue = {}
    /\ processed = {}
    /\ failed = {}
    /\ missing = {}
    /\ visited = None
    /\ raised = FALSE
    /\ attempted = {}
    /\ startActive = {}
    /\ examined = {}
    /\ fired = {<<"weekly", w, weekly_schedules[w].last_run_ymd>> :
                    w \in {x \in DOMAIN weekly_schedules :
                              weekly_schedules[x].last_run_ymd # None}}
    /\ blockedUsers = {}
    /\ reactivated = {}
    /\ lateContact = {}
    /\ lateMarks = {}

\* The store when the process starts at time t0.  Two one-off schedules are
\* due: schedule 1 without repeat (r1 is NULL or 0), 65 seconds late, and
\* schedule 2 repeating hourly.  Two weekly schedules for minute m of the
\* hour: schedule 1 for Monday, never run, schedule 2 for Monday and
\* Wednesday, last run on l2.
StoreAt(t0, r1, m, l2) ==
    /\ posts = PostIds
    /\ post_stats = [p \in PostIds |-> [delivered_count |-> 0, last_delivered_at |-> None]]
    /\ subscribers = [u \in Users |-> [is_active |-> TRUE, joined_at |-> t0 - 1000 + u]]
    /\ schedules = [s \in ScheduleIds |->
          IF s = 1 THEN Schedule(1, t0 - 65, r1) ELSE Schedule(2, t0, 3600)]
    /\ weekly_schedules = [w \in WeeklyIds |->
          IF w = 1 THEN Weekly(3, 9, m, 1, None) ELSE Weekly(1, 9, m, 5, l2)]

\* the weekly schedules are for 09:00 or 09:01; schedule 2 ran a week ago or
\* today
InitStore ==
    \E r1 \in {None, 0}, m \in {0, 1}, l2 \in {20231225, 20240101} :
        StoreAt(StartTime, r1, m, l2)

\* no handler is running send_post_to_all_subscribers and no payload is
\* being rendered
InitHandler ==
    /\ link_override = NoneStr
    /\ button_text_override = NoneStr
    /\ global_link = NoneStr
    /\ global_button_text = NoneStr
    /\ reply_markup = [sent |-> FALSE, inline_keyboard |-> <<>>]
    /\ b_pc = "idle"
    /\ b_offset = 0
    /\ b_users = <<>>
    /\ b_uidx = 0
    /\ sent_count = 0
    /\ blocked_count = 0
    /\ stats = None
    /\ broadcasts = 0
    /\ b_delivered = {}
    /\ b_forbidden = {}
    /\ b_transient = {}
    /\ b_startActive = {}
    /\ blockedBefore = {}
    /\ reported = <<>>

Init ==
    /\ clock = StartTime
    /\ InitStore
    /\ InitLocals
    /\ InitHandler

(***************************************************************************)
(* Scheduler task: src/bot/scheduler.py                                    *)
(***************************************************************************)
Ids(items) == {items[i].id : i \in 1..Len(items)}

\* the schedule being processed, tagged with the resolver that returned it
Current == <<phase, due[idx].id>>

\* _send_post_to_all_subscribers is not running
ClearFan ==
    /\ post' = None
    /\ offset' = 0
    /\ users' = <<>>
    /\ uidx' = 0
    /\ success_total' = 0
    /\ attempted' = {}
    /\ startActive' = {}

\* the iteration is over: start_scheduler reaches asyncio.sleep(5)
EnterSleep ==
    /\ pc' = "sleep"
    /\ phase' = "idle"
    /\ due' = <<>>
    /\ idx' = 0
    /\ ymd' = None
    /\ ClearFan

\* the exception propagates out of start_scheduler and ends the task
\* (who: the schedules whose processing has raised in this iteration)
Propagates(who) ==
    /\ events < MaxEvents
    /\ events' = events + 1
    /\ raised' = TRUE
    /\ failed' = who
    /\ pc' = "crashed"
    /\ UNCHANGED <<phase, due, idx, ymd, fanvars, fanghosts>>

\* the exception is caught and the loop goes to its next iteration at once,
\* with what the tick was doing left as it is
RaisesAndContinues(who) ==
    /\ events < MaxEvents
    /\ events' = events + 1
    /\ raised' = TRUE
    /\ failed' = who
    /\ pc' = "tick"
    /\ UNCHANGED <<phase, due, idx, ymd, fanvars, fanghosts>>

\* an awaited store call raises: the exception leaves the resolver and is
\* caught by `except Exception` of start_scheduler, which logs it
Raises(who) ==
    /\ events < MaxEvents
    /\ events' = events + 1
    /\ raised' = TRUE
    /\ failed' = who
    /\ EnterSleep

\* `for item in due` moves on; after the last one-off start_scheduler goes on
\* to the weekly check, after the last weekly schedule the iteration is over
NextItem ==
    IF idx < Len(due)
    THEN /\ idx' = idx + 1
         /\ pc' = "get_post"
         /\ UNCHANGED <<phase, due, ymd>>
         /\ ClearFan
    ELSE IF phase = "oneoff"
    THEN /\ pc' = "weekly_gate"
         /\ phase' = "idle"
         /\ due' = <<>>
         /\ idx' = 0
         /\ UNCHANGED ymd
         /\ ClearFan
    ELSE EnterSleep

\* `for u in users` moves on; after the last one `offset += batch`
NextRecipient ==
    IF uidx < Len(users)
    THEN /\ uidx' = uidx + 1
         /\ pc' = "fan_send"
         /\ UNCHANGED <<offset, users>>
    ELSE /\ offset' = offset + batch
         /\ users' = <<>>
         /\ uidx' = 0
         /\ pc' = "fan_page"

\* start_scheduler: now_ts = int(time.time()); _run_due_schedules:
\* due = await db.list_due_schedules(now_ts); n is the number of iterations
\* started so far
Tick(n) ==
    /\ pc = "tick"
    /\ ticks' = n
    /\ now_ts' = clock
    /\ due' = list_due_schedules(schedules, clock)
    /\ tickDue' = Ids(due')
    /\ weeklyDue' = {}
    /\ processed' = {}
    /\ failed' = {}
    /\ missing' = {}
    /\ visited' = None
    /\ IF due' = <<>>
       THEN pc' = "weekly_gate" /\ phase' = "idle" /\ idx' = 0
       ELSE pc' = "get_post" /\ phase' = "oneoff" /\ idx' = 1
    /\ UNCHANGED <<rendervars, lateMarks, subghosts, bvars, clock, dbvars, last_weekly_check_minute, ymd, fanvars, events,
                   raised, fanghosts, examined, fired>>

TickStart == ticks < MaxTicks /\ Tick(ticks + 1)

\* db.list_due_schedules raises
TickRaises(n) ==
    /\ pc = "tick"
    /\ ticks' = n
    /\ now_ts' = clock
    /\ tickDue' = {}
    /\ weeklyDue' = {}
    /\ processed' = {}
    /\ missing' = {}
    /\ visited' = None
    /\ Raises({})
    /\ UNCHANGED <<rendervars, lateMarks, subghosts, bvars, clock, dbvars, last_weekly_check_minute, examined, fired>>

TickStartRaises == ticks < MaxTicks /\ TickRaises(ticks + 1)

\* post = await db.get_post(post_id) returns the post: the fan-out starts
GetPostFound ==
    /\ pc = "get_post"
    /\ get_post(posts, due[idx].post_id) # None
    /\ post' = get_post(posts, due[idx].post_id)
    /\ offset' = 0
    /\ success_total' = 0
    /\ pc' = "fan_page"
    /\ attempted' = {}
    /\ startActive' = {u \in DOMAIN subscribers : subscribers[u].is_active}
    /\ fired' = fired \cup {<<phase, due[idx].id, YmdOfDay(DayOf(clock))>>}
    /\ UNCHANGED <<rendervars, lateMarks, subghosts, bvars, clock, dbvars, loopvars, users, uidx, events, ticks, tickghosts,
                   raised, examined>>

\* `if not post`
GetPostMissing ==
    /\ pc = "get_post"
    /\ get_post(posts, due[idx].post_id) = None
    /\ pc' = "mark_missing"
    /\ missing' = missing \cup {Current}
    /\ UNCHANGED <<rendervars, lateMarks, subghosts, bvars, clock, dbvars, loopvars, fanvars, events, ticks, tickDue, weeklyDue,
                   processed, failed, visited, raised, fanghosts, examined, fired>>

\* await db.mark_schedule_after_run(schedule_id, None); continue
\* await db.mark_weekly_ran(item["id"], ymd); continue
MarkMissing ==
    /\ pc = "mark_missing"
    /\ IF phase = "oneoff"
       THEN /\ schedules' = mark_schedule_after_run(schedules, due[idx].id, None, clock)
            /\ UNCHANGED weekly_schedules
       ELSE /\ weekly_schedules' = mark_weekly_ran(weekly_schedules, due[idx].id, ymd)
            /\ UNCHANGED schedules
    /\ processed' = processed \cup {Current}
    /\ lateMarks' = IF /\ phase = "oneoff"
                        /\ due[idx].id \in DOMAIN schedules
                        /\ schedules[due[idx].id].is_deleted
                     THEN lateMarks \cup {due[idx].id}
                     ELSE lateMarks
    /\ NextItem
    /\ UNCHANGED <<rendervars, subghosts, bvars, clock, posts, post_stats, subscribers, now_ts, last_weekly_check_minute,
                   events, ticks, tickDue, weeklyDue, failed, missing, visited, raised, examined, fired>>

\* users = await db.list_active_subscribers(limit=batch, offset=offset);
\* `if not users: break`, then `if success_total:`
FanPage ==
    /\ pc = "fan_page"
    /\ users' = list_active_subscribers(subscribers, batch, offset)
    /\ IF users' = <<>>
       THEN /\ uidx' = 0
            /\ pc' = IF success_total > 0 THEN "fan_stats" ELSE "mark"
       ELSE /\ uidx' = 1
            /\ pc' = "fan_send"
    /\ UNCHANGED <<rendervars, lateMarks, subghosts, bvars, clock, dbvars, loopvars, post, offset, success_total, events, ticks,
                   tickghosts, raised, fanghosts, examined, fired>>

\* await send_post_to_chat(...) returns after d seconds; success_total += 1
SendDelivered ==
    /\ pc = "fan_send"
    /\ \E d \in {0, ShortSend, LongSend} :
          /\ d > 0 => events < MaxEvents
          /\ events' = IF d > 0 THEN events + 1 ELSE events
          /\ clock' = After(clock, d)
    /\ success_total' = success_total + 1
    /\ attempted' = attempted \cup {users[uidx]}
    /\ NextRecipient
    /\ UNCHANGED <<rendervars, lateMarks, subghosts, bvars, dbvars, loopvars, post, ticks, tickghosts, raised, startActive,
                   examined, fired>>

\* send_post_to_chat raises TelegramForbiddenError
SendForbidden ==
    /\ pc = "fan_send"
    /\ attempted' = attempted \cup {users[uidx]}
    /\ pc' = "fan_deact"
    /\ UNCHANGED <<rendervars, lateMarks, subghosts, bvars, clock, dbvars, loopvars, fanvars, events, ticks, tickghosts, raised,
                   startActive, examined, fired>>

\* send_post_to_chat raises another exception, which is logged
SendTransient ==
    /\ pc = "fan_send"
    /\ attempted' = attempted \cup {users[uidx]}
    /\ NextRecipient
    /\ UNCHANGED <<rendervars, lateMarks, subghosts, bvars, clock, dbvars, loopvars, post, success_total, events, ticks, tickghosts,
                   raised, startActive, examined, fired>>

\* await db.set_subscriber_active(user_id, False)
Deactivate ==
    /\ pc = "fan_deact"
    /\ subscribers' = set_subscriber_active(subscribers, users[uidx], FALSE)
    /\ blockedUsers' = blockedUsers \cup {users[uidx]}
    /\ reactivated' = reactivated \ {users[uidx]}
    /\ lateContact' = lateContact \ {users[uidx]}
    /\ NextRecipient
    /\ UNCHANGED <<rendervars, lateMarks, bvars, clock, posts, post_stats, schedules, weekly_schedules, loopvars, post,
                   success_total, events, ticks, tickghosts, raised, fanghosts, examined,
                   fired>>

\* await db.increment_post_delivery(post["id"], success_total)
IncrementDelivery ==
    /\ pc = "fan_stats"
    /\ post_stats' = increment_post_delivery(post_stats, post, success_total, clock)
    /\ pc' = "mark"
    /\ UNCHANGED <<rendervars, lateMarks, subghosts, bvars, clock, posts, subscribers, schedules, weekly_schedules, loopvars,
                   fanvars, events, ticks, tickghosts, raised, fanghosts, examined, fired>>

\* await db.mark_schedule_after_run(schedule_id, repeat_interval)
\* await db.mark_weekly_ran(item["id"], ymd)
MarkRan ==
    /\ pc = "mark"
    /\ IF phase = "oneoff"
       THEN /\ schedules' = mark_schedule_after_run(schedules, due[idx].id,
                                                    due[idx].repeat_interval, clock)
            /\ UNCHANGED weekly_schedules
       ELSE /\ weekly_schedules' = mark_weekly_ran(weekly_schedules, due[idx].id, ymd)
            /\ UNCHANGED schedules
    /\ processed' = processed \cup {Current}
    /\ lateMarks' = IF /\ phase = "oneoff"
                        /\ due[idx].id \in DOMAIN schedules
                        /\ schedules[due[idx].id].is_deleted
                     THEN lateMarks \cup {due[idx].id}
                     ELSE lateMarks
    /\ NextItem
    /\ UNCHANGED <<rendervars, subghosts, bvars, clock, posts, post_stats, subscribers, now_ts, last_weekly_check_minute,
                   events, ticks, tickDue, weeklyDue, failed, missing, visited, raised, examined, fired>>

\* `if last_weekly_check_minute != now_minute`: the minute is recorded, then
\* _run_weekly reads datetime.now() and calls db.list_weekly_due
WeeklyRun ==
    /\ pc = "weekly_gate"
    /\ last_weekly_check_minute # now_ts \div 60
    /\ last_weekly_check_minute' = now_ts \div 60
    /\ LET cur == current_local_minute(clock)
       IN  /\ due' = list_weekly_due(weekly_schedules, cur.wday, cur.hour, cur.minute,
                                     cur.ymd)
           /\ ymd' = IF due' = <<>> THEN None ELSE cur.ymd
    /\ weeklyDue' = Ids(due')
    /\ visited' = clock \div 60
    /\ examined' = examined \cup {clock \div 60}
    /\ IF due' = <<>>
       THEN pc' = "sleep" /\ phase' = "idle" /\ idx' = 0
       ELSE pc' = "get_post" /\ phase' = "weekly" /\ idx' = 1
    /\ UNCHANGED <<rendervars, lateMarks, subghosts, bvars, clock, dbvars, now_ts, fanvars, events, ticks, tickDue, processed,
                   failed, missing, raised, fanghosts, fired>>

\* the minute is recorded, then db.list_weekly_due raises
WeeklyRunRaises ==
    /\ pc = "weekly_gate"
    /\ last_weekly_check_minute # now_ts \div 60
    /\ last_weekly_check_minute' = now_ts \div 60
    /\ Raises(failed)
    /\ UNCHANGED <<rendervars, lateMarks, subghosts, bvars, clock, dbvars, now_ts, ticks, tickDue, weeklyDue, processed, missing,
                   visited, examined, fired>>

\* the weekly check has been made in this minute
WeeklySkip ==
    /\ pc = "weekly_gate"
    /\ last_weekly_check_minute = now_ts \div 60
    /\ EnterSleep
    /\ UNCHANGED <<rendervars, lateMarks, subghosts, bvars, clock, dbvars, now_ts, last_weekly_check_minute, events, ticks,
                   tickghosts, raised, examined, fired>>

\* await asyncio.sleep(5)
Sleep ==
    /\ pc = "sleep"
    /\ clock' = After(clock, SleepSeconds)
    /\ pc' = "tick"
    /\ UNCHANGED <<rendervars, lateMarks, subghosts, bvars, dbvars, loopvars, fanvars, events, ticks, tickghosts, raised,
                   fanghosts, examined, fired>>

\* the minute of the tick is recorded in a `finally` clause, also when the
\* one-off phase raises
ItemRaisesGateRecorded ==
    /\ pc \in {"get_post", "mark_missing", "fan_page", "fan_deact", "fan_stats", "mark"}
    /\ Raises(failed \cup {Current})
    /\ lateContact' = IF pc = "fan_deact" THEN lateContact \ {users[uidx]} ELSE lateContact
    /\ last_weekly_check_minute' = now_ts \div 60
    /\ UNCHANGED <<rendervars, lateMarks, blockedUsers, reactivated, bvars, clock, dbvars,
                   now_ts, ticks, tickDue, weeklyDue, processed, missing, visited, examined,
                   fired>>

\* the recorded minute is cleared when the weekly run raises
ItemRaisesGateCleared ==
    /\ pc \in {"get_post", "mark_missing", "fan_page", "fan_deact", "fan_stats", "mark"}
    /\ Raises(failed \cup {Current})
    /\ lateContact' = IF pc = "fan_deact" THEN lateContact \ {users[uidx]} ELSE lateContact
    /\ last_weekly_check_minute' = IF phase = "weekly" THEN None
                                    ELSE last_weekly_check_minute
    /\ UNCHANGED <<rendervars, lateMarks, blockedUsers, reactivated, bvars, clock, dbvars,
                   now_ts, ticks, tickDue, weeklyDue, processed, missing, visited, examined,
                   fired>>

\* the one-off schedule is marked in a `finally` clause, also when the call
\* raises
ItemRaisesMarked ==
    /\ pc \in {"get_post", "mark_missing", "fan_page", "fan_deact", "fan_stats", "mark"}
    /\ Raises(failed \cup {Current})
    /\ lateContact' = IF pc = "fan_deact" THEN lateContact \ {users[uidx]} ELSE lateContact
    /\ schedules' = IF phase = "oneoff"
                    THEN mark_schedule_after_run(schedules, due[idx].id,
                                                 due[idx].repeat_interval, clock)
                    ELSE schedules
    /\ UNCHANGED <<rendervars, lateMarks, blockedUsers, reactivated, bvars, clock, posts, post_stats,
                   subscribers, weekly_schedules, now_ts, last_weekly_check_minute, ticks,
                   tickDue, weeklyDue, processed, missing, visited, examined, fired>>

\* a store call made for the schedule being processed raises
ItemRaises ==
    /\ pc \in {"get_post", "mark_missing", "fan_page", "fan_deact", "fan_stats", "mark"}
    /\ Raises(failed \cup {Current})
    /\ lateContact' = IF pc = "fan_deact" THEN lateContact \ {users[uidx]} ELSE lateContact
    /\ UNCHANGED <<rendervars, lateMarks, blockedUsers, reactivated, bvars, clock, dbvars, now_ts, last_weekly_check_minute, ticks, tickDue,
                   weeklyDue, processed, missing, visited, examined, fired>>

Dispatch ==
    \/ FanPage
    \/ SendDelivered
    \/ SendForbidden
    \/ SendTransient
    \/ Deactivate
    \/ IncrementDelivery

Scheduler ==
    \/ TickStart
    \/ GetPostFound
    \/ GetPostMissing
    \/ MarkMissing
    \/ Dispatch
    \/ MarkRan
    \/ WeeklyRun
    \/ WeeklySkip
    \/ Sleep

StoreRaises ==
    \/ TickStartRaises
    \/ ItemRaises
    \/ WeeklyRunRaises

(***************************************************************************)
(* Admin handlers: src/bot/routers/admin.py.  They run in other tasks,     *)
(* between two awaited calls of the scheduler.                             *)
(***************************************************************************)
\* db.get_post_schedules: the one-off schedules of the post that are not
\* deleted and its weekly schedules that are not paused
get_post_schedules(post_id) ==
    {<<"oneoff", s>> : s \in {x \in DOMAIN schedules :
                                 schedules[x].post_id = post_id /\ ~schedules[x].is_deleted}}
    \cup
    {<<"weekly", w>> : w \in {x \in DOMAIN weekly_schedules :
                                 /\ weekly_schedules[x].post_id = post_id
                                 /\ ~weekly_schedules[x].is_paused}}

\* one request of the admin is handled
Handled ==
    /\ events < MaxEvents
    /\ events' = events + 1
    /\ UNCHANGED <<rendervars, lateMarks, subghosts, bvars, clock, pc, loopvars, fanvars, ticks, tickghosts, raised, fanghosts,
                   examined, fired>>

\* callback schedule:delete:<id>:<post_id>
AdminDeleteSchedule(s) ==
    /\ s \in DOMAIN schedules
    /\ ~schedules[s].is_deleted
    /\ schedules' = delete_schedule(schedules, s)
    /\ UNCHANGED <<posts, post_stats, subscribers, weekly_schedules>>
    /\ Handled

\* callback weekly:delete:<id>:<post_id>
AdminDeleteWeekly(w) ==
    /\ w \in DOMAIN weekly_schedules
    /\ weekly_schedules' = delete_weekly_schedule(weekly_schedules, w)
    /\ UNCHANGED <<posts, post_stats, subscribers, schedules>>
    /\ Handled

\* callback post:delete:<id>: refused while get_post_schedules returns a schedule
AdminDeletePost(p) ==
    /\ p \in posts
    /\ get_post_schedules(p) = {}
    /\ LET db == delete_post([posts |-> posts, post_stats |-> post_stats,
                              schedules |-> schedules,
                              weekly_schedules |-> weekly_schedules], p)
       IN  /\ posts' = db.posts
           /\ post_stats' = db.post_stats
           /\ schedules' = db.schedules
           /\ weekly_schedules' = db.weekly_schedules
    /\ UNCHANGED subscribers
    /\ Handled

Admin ==
    \/ \E s \in ScheduleIds : AdminDeleteSchedule(s)
    \/ \E w \in WeeklyIds : AdminDeleteWeekly(w)
    \/ \E p \in PostIds : AdminDeletePost(p)

(***************************************************************************)
(* Broadcast of a fast post: admin.fast_post_button_text awaits            *)
(* services.posts.send_post_to_all_subscribers and answers with its result *)
(***************************************************************************)
schedvars == <<pc, loopvars, fanvars, ticks, tickghosts, raised, fanghosts, examined,
               fired>>

\* `for u in users` moves on; after the last one `offset += batch`
NextBroadcastRecipient ==
    IF b_uidx < Len(b_users)
    THEN /\ b_uidx' = b_uidx + 1
         /\ b_pc' = "b_send"
         /\ UNCHANGED <<b_offset, b_users>>
    ELSE /\ b_offset' = b_offset + batch
         /\ b_users' = <<>>
         /\ b_uidx' = 0
         /\ b_pc' = "b_page"

\* stats = await send_post_to_all_subscribers(...): the call starts
BroadcastStart ==
    /\ b_pc \in {"idle", "done", "failed"}
    /\ broadcasts < MaxBroadcasts
    /\ broadcasts' = broadcasts + 1
    /\ b_pc' = "b_page"
    /\ b_offset' = 0
    /\ b_users' = <<>>
    /\ b_uidx' = 0
    /\ sent_count' = 0
    /\ blocked_count' = 0
    /\ stats' = None
    /\ b_delivered' = {}
    /\ b_forbidden' = {}
    /\ b_transient' = {}
    /\ b_startActive' = {u \in DOMAIN subscribers : subscribers[u].is_active}
    /\ blockedBefore' = IF b_pc = "done" THEN blockedBefore \cup b_forbidden
                        ELSE blockedBefore
    /\ UNCHANGED <<rendervars, lateMarks, subghosts, clock, dbvars, schedvars, events, reported>>

\* users = await db.list_active_subscribers(limit=batch, offset=offset);
\* `if not users: break`, then return {"sent": ..., "blocked": ...}
BroadcastPage ==
    /\ b_pc = "b_page"
    /\ b_users' = list_active_subscribers(subscribers, batch, b_offset)
    /\ IF b_users' = <<>>
       THEN /\ b_uidx' = 0
            /\ b_pc' = "done"
            /\ stats' = [sent |-> sent_count, blocked |-> blocked_count]
            /\ reported' = Append(reported, stats')
       ELSE /\ b_uidx' = 1
            /\ b_pc' = "b_send"
            /\ UNCHANGED <<stats, reported>>
    /\ UNCHANGED <<rendervars, lateMarks, subghosts, clock, dbvars, schedvars, events, b_offset, sent_count, blocked_count,
                   broadcasts, b_delivered, b_forbidden, b_transient, b_startActive,
                   blockedBefore>>

\* await send_post_to_chat(...) returns; sent_count += 1
BroadcastDelivered ==
    /\ b_pc = "b_send"
    /\ sent_count' = sent_count + 1
    /\ b_delivered' = b_delivered \cup {b_users[b_uidx]}
    /\ NextBroadcastRecipient
    /\ UNCHANGED <<rendervars, lateMarks, subghosts, clock, dbvars, schedvars, events, blocked_count, stats, broadcasts,
                   b_forbidden, b_transient, b_startActive, blockedBefore, reported>>

\* send_post_to_chat raises TelegramForbiddenError
BroadcastForbidden ==
    /\ b_pc = "b_send"
    /\ b_forbidden' = b_forbidden \cup {b_users[b_uidx]}
    /\ b_pc' = "b_deact"
    /\ UNCHANGED <<rendervars, lateMarks, subghosts, clock, dbvars, schedvars, events, b_offset, b_users, b_uidx, sent_count,
                   blocked_count, stats, broadcasts, b_delivered, b_transient,
                   b_startActive, blockedBefore, reported>>

\* send_post_to_chat raises another exception, which is logged
BroadcastTransient ==
    /\ b_pc = "b_send"
    /\ b_transient' = b_transient \cup {b_users[b_uidx]}
    /\ NextBroadcastRecipient
    /\ UNCHANGED <<rendervars, lateMarks, subghosts, clock, dbvars, schedvars, events, sent_count, blocked_count, stats,
                   broadcasts, b_delivered, b_forbidden, b_startActive, blockedBefore, reported>>

\* await db.set_subscriber_active(user_id, False); blocked_count += 1
BroadcastDeactivate ==
    /\ b_pc = "b_deact"
    /\ subscribers' = set_subscriber_active(subscribers, b_users[b_uidx], FALSE)
    /\ blocked_count' = blocked_count + 1
    /\ blockedUsers' = blockedUsers \cup {b_users[b_uidx]}
    /\ reactivated' = reactivated \ {b_users[b_uidx]}
    /\ lateContact' = lateContact \ {b_users[b_uidx]}
    /\ NextBroadcastRecipient
    /\ UNCHANGED <<rendervars, lateMarks, clock, posts, post_stats, schedules, weekly_schedules, schedvars, events,
                   sent_count, stats, broadcasts, b_delivered, b_forbidden, b_transient,
                   b_startActive, blockedBefore, reported>>

\* db.list_active_subscribers or db.set_subscriber_active raises: the
\* exception leaves send_post_to_all_subscribers and the handler
BroadcastRaises ==
    /\ b_pc \in {"b_page", "b_deact"}
    /\ events < MaxEvents
    /\ events' = events + 1
    /\ b_pc' = "failed"
    /\ b_users' = <<>>
    /\ b_uidx' = 0
    /\ lateContact' = IF b_pc = "b_deact" THEN lateContact \ {b_users[b_uidx]}
                       ELSE lateContact
    /\ UNCHANGED <<rendervars, lateMarks, blockedUsers, reactivated, clock, dbvars, schedvars, b_offset, sent_count, blocked_count, stats,
                   broadcasts, b_delivered, b_forbidden, b_transient, b_startActive,
                   blockedBefore, reported>>

Broadcast ==
    \/ BroadcastStart
    \/ BroadcastPage
    \/ BroadcastDelivered
    \/ BroadcastForbidden
    \/ BroadcastTransient
    \/ BroadcastDeactivate
    \/ BroadcastRaises

\* three active subscribers, no schedule
InitBroadcast ==
    /\ clock = StartTime
    /\ posts = PostIds
    /\ post_stats = [p \in PostIds |-> [delivered_count |-> 0, last_delivered_at |-> None]]
    /\ subscribers = [u \in Recipients |->
                         [is_active |-> TRUE, joined_at |-> StartTime - 1000 + u]]
    /\ schedules = [s \in {} |-> Schedule(1, StartTime, None)]
    /\ weekly_schedules = [w \in {} |-> Weekly(1, 9, 0, 1, None)]
    /\ InitLocals
    /\ InitHandler

Next == Scheduler \/ StoreRaises \/ Admin

\* the broadcasts of an admin while the scheduler has no schedule to run
SpecBroadcast == InitBroadcast /\ [][Broadcast]_vars

Spec == Init /\ [][Next]_vars

(***************************************************************************)
(* The tick loop without a bound on its iterations: `while True` of        *)
(* start_scheduler.  The counter of iterations stops at MaxTicks and the   *)
(* clock at EndTime, the loop goes on.  The event loop resumes the         *)
(* scheduler task whenever the call it awaits has completed, so a step of  *)
(* the task that stays possible is taken; a store call need not raise.     *)
(***************************************************************************)
\* the process starts one period before the clock stops, in the minute of the
\* weekly schedules
LiveStart == EndTime - SleepSeconds

InitLive ==
    /\ clock = LiveStart
    /\ StoreAt(LiveStart, None, (LiveStart \div 60) % 60, 20231225)
    /\ InitLocals
    /\ InitHandler

TickLive == Tick(Min(ticks + 1, MaxTicks))

TickLiveRaises == TickRaises(Min(ticks + 1, MaxTicks))

SchedulerLive ==
    \/ TickLive
    \/ GetPostFound
    \/ Dispatch
    \/ MarkRan
    \/ WeeklyRun
    \/ WeeklySkip
    \/ Sleep

StoreRaisesLive ==
    \/ TickLiveRaises
    \/ ItemRaises
    \/ WeeklyRunRaises

NextLive == SchedulerLive \/ StoreRaisesLive

SpecLive == InitLive /\ [][NextLive]_vars /\ WF_vars(SchedulerLive)

(***************************************************************************)
(* Public handlers: src/bot/routers/public.py.  Every inbound contact of a *)
(* user inserts the subscriber or activates it again.  The fan-outs of the *)
(* scheduler are explored while users write to the bot.                    *)
(***************************************************************************)
\* await db.add_or_update_subscriber(user.id, user.first_name, user.username)
Contacted(user_id) ==
    /\ events < MaxEvents
    /\ events' = events + 1
    /\ subscribers' = add_or_update_subscriber(subscribers, user_id, clock)
    /\ blockedUsers' = blockedUsers \ {user_id}
    /\ reactivated' = IF user_id \in blockedUsers THEN reactivated \cup {user_id}
                       ELSE reactivated
    /\ lateContact' = IF \/ (pc = "fan_deact" /\ users[uidx] = user_id)
                          \/ (b_pc = "b_deact" /\ b_users[b_uidx] = user_id)
                       THEN lateContact \cup {user_id}
                       ELSE lateContact
    /\ UNCHANGED <<rendervars, lateMarks, bvars, clock, posts, post_stats, schedules, weekly_schedules,
                   pc, loopvars, fanvars, ticks, tickghosts, raised, fanghosts, examined,
                   fired>>

\* /start
cmd_start(user_id) == Contacted(user_id)

\* any other message: ignored from an admin and outside a private chat
handle_any_message(user_id, is_admin, chat_type) ==
    /\ ~is_admin
    /\ chat_type = "private"
    /\ Contacted(user_id)

Public ==
    \E u \in Recipients :
        \/ cmd_start(u)
        \/ \E is_admin \in BOOLEAN, chat_type \in {"private", "group"} :
              handle_any_message(u, is_admin, chat_type)

\* two subscribers, the schedules of StoreAt with the weekly schedules at 09:00
InitFan ==
    /\ clock = StartTime
    /\ StoreAt(StartTime, None, 0, 20231225)
    /\ InitLocals
    /\ InitHandler

SchedulerFan ==
    \/ TickStart
    \/ GetPostFound
    \/ Dispatch
    \/ MarkRan
    \/ WeeklyRun
    \/ WeeklySkip
    \/ Sleep

NextFan == SchedulerFan \/ StoreRaises \/ Public

SpecFan == InitFan /\ [][NextFan]_vars

(***************************************************************************)
(* Rendering of the payload: src/bot/services/posts.py.  The values of a   *)
(* post's link_override and button_text and of the two settings are drawn  *)
(* from None, the empty string and a text; send_post_to_chat builds the    *)
(* keyboard it sends along with the content.                               *)
(***************************************************************************)
\* DEFAULT_BUTTON_TEXT, in Latin letters without the emoji
DEFAULT_BUTTON_TEXT == "Zabrat bonus"

\* truth value of an optional string in `if value:` and `value or ...`
Truthy(value) == value # NoneStr /\ value # ""

\* the configured link is preferred to the link of the post
resolve_post_url_global_first(link, global) ==
    IF Truthy(global) THEN global ELSE link

\* global is the value db.get_setting("global_link") returns
resolve_post_url(link, global) ==
    IF Truthy(link) THEN link ELSE global

\* global_btn is the value db.get_setting("global_button_text") returns
resolve_button_text(button_text, global_btn) ==
    IF Truthy(button_text) THEN button_text
    ELSE IF Truthy(global_btn) THEN global_btn ELSE DEFAULT_BUTTON_TEXT

\* kb.as_markup(): the buttons of the keyboard send_post_to_chat builds
as_markup(link, button_text, global, global_btn) ==
    LET url == resolve_post_url(link, global)
        text == IF Truthy(url) THEN resolve_button_text(button_text, global_btn)
                ELSE NoneStr
    IN  IF Truthy(url) /\ Truthy(text)
        THEN <<[text |-> text, url |-> url]>>
        ELSE <<>>

\* the content is sent to the chat with reply_markup
send_post_to_chat ==
    /\ ~reply_markup.sent
    /\ reply_markup' = [sent |-> TRUE,
                        inline_keyboard |-> as_markup(link_override, button_text_override,
                                                      global_link, global_button_text)]
    /\ UNCHANGED <<link_override, button_text_override, global_link, global_button_text,
                   lateMarks, subghosts, bvars, clock, dbvars, schedvars, events>>

OptionalLinks == {NoneStr, "", "https://example.org/a", "https://example.org/b"}
OptionalLabels == {NoneStr, "", "Open", "Visit"}

InitRender ==
    /\ clock = StartTime
    /\ posts = PostIds
    /\ post_stats = [p \in PostIds |-> [delivered_count |-> 0, last_delivered_at |-> None]]
    /\ subscribers = [u \in Users |-> [is_active |-> TRUE, joined_at |-> StartTime - 1000 + u]]
    /\ schedules = [s \in {} |-> Schedule(1, StartTime, None)]
    /\ weekly_schedules = [w \in {} |-> Weekly(1, 9, 0, 1, None)]
    /\ InitLocals
    /\ b_pc = "idle"
    /\ b_offset = 0
    /\ b_users = <<>>
    /\ b_uidx = 0
    /\ sent_count = 0
    /\ blocked_count = 0
    /\ stats = None
    /\ broadcasts = 0
    /\ b_delivered = {}
    /\ b_forbidden = {}
    /\ b_transient = {}
    /\ b_startActive = {}
    /\ blockedBefore = {}
    /\ reported = <<>>
    /\ link_override \in OptionalLinks
    /\ global_link \in OptionalLinks
    /\ button_text_override \in OptionalLabels
    /\ global_button_text \in OptionalLabels
    /\ reply_markup = [sent |-> FALSE, inline_keyboard |-> <<>>]

SpecRender == InitRender /\ [][send_post_to_chat]_vars

(***************************************************************************)
(* The resolvers on their own: db.list_due_schedules and                   *)
(* db.list_weekly_due, called by the first tick on tables in any state the *)
(* methods of the store can leave them in.                                 *)
(***************************************************************************)
\* no post is being rendered, no subscriber has been deactivated
InitIdle ==
    /\ posts = PostIds
    /\ post_stats = [p \in PostIds |-> [delivered_count |-> 0, last_delivered_at |-> None]]
    /\ subscribers = [u \in Users |-> [is_active |-> TRUE, joined_at |-> StartTime - 1000 + u]]
    /\ InitLocals
    /\ InitHandler

\* two one-off schedules, each deleted or not, paused or not, with next_run_at
\* before, at or after the time of the tick
InitDue ==
    /\ clock = StartTime
    /\ schedules \in [ScheduleIds ->
          [post_id : {1}, next_run_at : {StartTime - 1, StartTime, StartTime + 1},
           repeat_interval : {3600}, is_paused : BOOLEAN, is_deleted : BOOLEAN,
           last_run_at : {None}]]
    /\ weekly_schedules = [w \in {} |-> Weekly(1, 9, 0, 1, None)]
    /\ InitIdle

SpecDue == InitDue /\ [][TickStart]_vars

\* the times of the first tick: Monday 2024-01-01 09:00:00, 09:00:59 and
\* 09:01:00, 10:00:00, Tuesday 09:00:30 and Sunday 2024-01-07 09:00:00
ResolveTimes ==
    {StartTime, StartTime + 59, StartTime + 60, StartTime + 3600,
     StartTime + 86400 + 30, StartTime + 6 * 86400}

\* one weekly schedule at 09:00 or 09:01, paused or not, for Monday, Tuesday,
\* Monday and Wednesday or Sunday, never run or last run on a given date
InitWeekly ==
    /\ clock \in ResolveTimes
    /\ schedules = [s \in {} |-> Schedule(1, StartTime, None)]
    /\ weekly_schedules \in [{1} ->
          [post_id : {1}, hour : {9}, minute : {0, 1}, days_mask : {1, 2, 5, 64},
           is_paused : BOOLEAN, last_run_ymd : {None, 20231225, 20240101, 20240102}]]
    /\ InitIdle

NextWeekly == TickStart \/ WeeklyRun

SpecWeekly == InitWeekly /\ [][NextWeekly]_vars

(***************************************************************************)
(* Catching up: a repeating one-off schedule whose next_run_at lies        *)
(* several intervals in the past when the process starts.  The tick loop   *)
(* is explored for as many iterations as the schedule needs to catch up.   *)
(***************************************************************************)
\* whole intervals by which the schedule is overdue when the process starts
OverdueIntervals == 2
\* iterations of the tick loop explored while the schedule catches up
MaxCatchUpTicks == 4

\* the hourly schedule 1 is overdue by OverdueIntervals hours, or by half an
\* hour more
InitCatchUp ==
    /\ clock = StartTime
    /\ \E r \in {0, 1800} :
          schedules = [s \in {1} |->
                          Schedule(1, StartTime - OverdueIntervals * 3600 - r, 3600)]
    /\ weekly_schedules = [w \in {} |-> Weekly(1, 9, 0, 1, None)]
    /\ InitIdle

TickCatchUp == ticks < MaxCatchUpTicks /\ Tick(ticks + 1)

TickCatchUpRaises == ticks < MaxCatchUpTicks /\ TickRaises(ticks + 1)

SchedulerCatchUp ==
    \/ TickCatchUp
    \/ GetPostFound
    \/ Dispatch
    \/ MarkRan
    \/ WeeklyRun
    \/ WeeklySkip
    \/ Sleep

StoreRaisesCatchUp ==
    \/ TickCatchUpRaises
    \/ ItemRaises
    \/ WeeklyRunRaises

NextCatchUp == SchedulerCatchUp \/ StoreRaisesCatchUp

SpecCatchUp == InitCatchUp /\ [][NextCatchUp]_vars

(***************************************************************************)
(* The fan-outs to their end: the scheduler fans out a due post while an   *)
(* admin broadcasts fast posts, over a fixed set of subscribers.  Both     *)
(* paging loops run in tasks the event loop resumes whenever the awaited   *)
(* call has completed; the gateway answers every delivery attempt and no   *)
(* store call raises.                                                      *)
(***************************************************************************)
\* two subscribers, one one-off schedule without repeat due at the start
InitFanOutLive ==
    /\ clock = LiveStart
    /\ schedules = [s \in {1} |-> Schedule(1, LiveStart, None)]
    /\ weekly_schedules = [w \in {} |-> Weekly(1, 9, 0, 1, None)]
    /\ InitIdle

\* the steps of send_post_to_all_subscribers once it has been called
BroadcastRun ==
    \/ BroadcastPage
    \/ BroadcastDelivered
    \/ BroadcastForbidden
    \/ BroadcastTransient
    \/ BroadcastDeactivate

NextFanOutLive == SchedulerLive \/ BroadcastStart \/ BroadcastRun

SpecFanOutLive ==
    /\ InitFanOutLive
    /\ [][NextFanOutLive]_vars
    /\ WF_vars(SchedulerLive)
    /\ WF_vars(BroadcastRun)

(***************************************************************************)
(* Properties                                                              *)
(***************************************************************************)
\* the scheduler completes the mark of the schedule it is processing
Marks == pc \in {"mark", "mark_missing"} /\ processed' # processed

\* the scheduler starts the fan-out of the schedule it is processing
StartsFanOut == pc = "get_post" /\ pc' = "fan_page"

\* the date of the clock, as _current_local_minute computes it
Today == YmdOfDay(DayOf(clock))

\* C1: when the tick marks a due one-off schedule with repeat interval I > 0
\* whose next_run_at is T, next_run_at becomes T + I exactly, however late
\* the tick is (now >= T); now is written to last_run_at only.
C1_NextRunAdvancesByInterval ==
    [][(/\ Marks
        /\ pc = "mark"
        /\ phase = "oneoff"
        /\ due[idx].repeat_interval > 0
        /\ due[idx].id \in DOMAIN schedules)
       => LET s == due[idx].id
              T == due[idx].next_run_at
          IN  /\ schedules[s].next_run_at = T
              /\ clock >= T
              /\ schedules'[s].next_run_at = T + due[idx].repeat_interval
              /\ schedules'[s].last_run_at = clock
              /\ schedules'[s].is_deleted = schedules[s].is_deleted]_vars

\* a repeating schedule has been marked by a tick that ran later than its
\* scheduled time
C1_Witness ==
    \E s \in DOMAIN schedules :
        /\ schedules[s].repeat_interval # None
        /\ schedules[s].repeat_interval > 0
        /\ schedules[s].last_run_at # None
        /\ schedules[s].last_run_at > schedules[s].next_run_at - schedules[s].repeat_interval

\* the schedule has no repeat interval (NULL or 0)
NoRepeat(r) == r.repeat_interval = None \/ r.repeat_interval = 0

\* schedule s of table scheds has no repeat interval and has been terminated
\* by a completed mark
Terminated(scheds, s) ==
    /\ s \in DOMAIN scheds
    /\ NoRepeat(scheds[s])
    /\ scheds[s].last_run_at # None
    /\ scheds[s].is_deleted

\* C2 as amended: a one-off schedule with no repeat interval (NULL or 0) is
\* terminated by the first tick that completes its mark; once terminated it
\* stays terminated, no later tick's Due Resolver returns it and no fan-out
\* of it starts.
C2_TerminatedByCompletedMark ==
    [][/\ (Marks /\ phase = "oneoff" /\ NoRepeat(due[idx])
                 /\ due[idx].id \in DOMAIN schedules)
          => Terminated(schedules', due[idx].id)
       /\ \A s \in DOMAIN schedules :
             Terminated(schedules, s)
                => /\ s \in DOMAIN schedules' => Terminated(schedules', s)
                   /\ ticks' # ticks => s \notin tickDue'
                   /\ StartsFanOut /\ phase = "oneoff" => due[idx].id # s]_vars

\* a schedule without repeat was terminated by one tick and a later tick has
\* run its Due Resolver
C2_Witness ==
    \E s \in DOMAIN schedules :
        /\ Terminated(schedules, s)
        /\ schedules[s].last_run_at < now_ts
        /\ <<"oneoff", s, Today>> \in fired
        /\ pc = "sleep"

\* C2 as stated: a one-off schedule with no repeat interval is terminated by
\* the tick that first resolves it as due, and its fan-out starts at most once.
C2_TerminatedByFirstDueTick ==
    [][/\ pc' = "sleep" /\ pc # "sleep"
          => \A s \in tickDue' :
                (s \in DOMAIN schedules' /\ NoRepeat(schedules'[s]))
                   => schedules'[s].is_deleted
       /\ (StartsFanOut /\ phase = "oneoff" /\ NoRepeat(due[idx]))
          => \A f \in fired : ~(f[1] = "oneoff" /\ f[2] = due[idx].id)]_vars

\* C3: for every weekly schedule and every date, at most one fan-out of the
\* schedule starts on that date, however many ticks observe its minute.
C3_WeeklyFiresOncePerDate ==
    [][(StartsFanOut /\ phase = "weekly")
          => <<"weekly", due[idx].id, Today>> \notin fired]_vars

\* C4: when a fan-out is over, every subscriber that was active when it
\* started has received a delivery attempt.
C4_EveryActiveSubscriberAttempted ==
    pc \in {"fan_stats", "mark"} => startActive \subseteq attempted

\* C7: an error raised while one due schedule is processed degrades only that
\* schedule: when the tick is over, every other one-off schedule of its due
\* list has been dispatched and marked.
C7_ErrorDegradesOneSchedule ==
    pc = "sleep" => \A s \in tickDue :
                       <<"oneoff", s>> \in processed \/ <<"oneoff", s>> \in failed

C9_EveryMinuteExamined ==
    pc = "sleep" => \A M \in (StartTime \div 60)..(clock \div 60 - 1) : M \in examined

\* the weekly schedule w matches the weekday, hour and minute of minute M
MatchesMinute(w, M) ==
    LET cur == current_local_minute(M * 60)
    IN  /\ weekly_schedules[w].hour = cur.hour
        /\ weekly_schedules[w].minute = cur.minute
        /\ BitSet(weekly_schedules[w].days_mask, cur.wday)

\* C10: a non-paused weekly schedule that fired on an earlier date fires
\* again when the Weekly Resolver visits its hour:minute on a date whose
\* weekday bit is set (unless its own processing raised).
C10_WeeklyFiresAgain ==
    (pc = "sleep" /\ visited # None)
       => \A w \in DOMAIN weekly_schedules :
             (/\ ~weekly_schedules[w].is_paused
              /\ MatchesMinute(w, visited)
              /\ \E f \in fired : f[1] = "weekly" /\ f[2] = w /\ f[3] < Today
              /\ <<"weekly", w>> \notin failed
              /\ <<"weekly", w>> \notin missing)
                => <<"weekly", w, Today>> \in fired

C6_TickLoopNeverStops ==
    /\ []<><<pc = "tick" /\ pc' # "tick">>_vars
    /\ []<><<pc = "sleep" /\ pc' = "tick">>_vars

\* a store call raised in an earlier iteration and the loop is in the middle
\* of a later one
C6_Witness ==
    /\ raised
    /\ pc = "weekly_gate"
    /\ failed = {}

\* the Weekly Resolver returns its list
ResolvesWeekly == pc = "weekly_gate" /\ visited' # None

\* C11: a weekly schedule is resolved as due only at a clock reading whose
\* weekday bit is set in days_mask and whose hour and minute are the
\* schedule's, and a weekly fan-out starts only for a schedule resolved so in
\* the same tick: a schedule whose minute passed without a resolution is not
\* fired later.
C11_WeeklyNeverCaughtUp ==
    [][/\ ResolvesWeekly
          => /\ visited' = clock \div 60
             /\ \A w \in weeklyDue' : MatchesMinute(w, clock \div 60)
       /\ (StartsFanOut /\ phase = "weekly")
          => /\ due[idx].id \in weeklyDue
             /\ visited # None]_vars

\* the minute of weekly schedule 1, 09:00, passed without a resolution; a
\* later tick has run the Weekly Resolver and the schedule has not fired
C11_Witness ==
    /\ pc = "sleep"
    /\ visited # None
    /\ visited > StartTime \div 60
    /\ (StartTime \div 60) \notin examined
    /\ 1 \in DOMAIN weekly_schedules
    /\ weekly_schedules[1].minute = 0
    /\ <<"weekly", 1, Today>> \notin fired

\* the scheduler's fan-out has the outcome of its delivery attempt to
\* users[uidx]
Attempts == pc = "fan_send" /\ (pc' # pc \/ uidx' # uidx)

\* C12: is_active of a subscriber goes from true to false only in the step
\* that follows a permanent failure of a delivery attempt to that subscriber,
\* and that step (unless the store call raises) does make it false; a
\* delivered or transient outcome leaves every flag unchanged; in each case
\* the fan-out goes on with the next recipient or the next page.
C12_DeactivatedExactlyOnPermanentFailure ==
    [][/\ \A u \in DOMAIN subscribers :
             (subscribers[u].is_active /\ ~subscribers'[u].is_active)
                => pc = "fan_deact" /\ users[uidx] = u
       /\ (pc = "fan_deact" /\ pc' # pc /\ events' = events)
          => /\ ~subscribers'[users[uidx]].is_active
             /\ pc' \in {"fan_send", "fan_page"}
       /\ Attempts
          => /\ UNCHANGED subscribers
             /\ pc' \in {"fan_deact", "fan_send", "fan_page"}]_vars

\* a fan-out is over in which one attempt failed permanently and another
\* recipient, attempted as well, is still active
C12_Witness ==
    /\ pc = "mark"
    /\ \E u \in attempted : ~subscribers[u].is_active /\ u \in blockedUsers
    /\ \E v \in attempted : subscribers[v].is_active

\* C13: when a fan-out of a stored post is over with sent > 0 (success_total),
\* one update adds exactly sent to the post's delivered_count and sets
\* last_delivered_at to the time of the update; with sent = 0 the statistics
\* are not written; no other step writes them and delivered_count never
\* decreases while the row exists.
C13_DeliveredCountAddedOnce ==
    [][/\ (pc = "fan_stats" /\ pc' = "mark")
          => /\ success_total > 0
             /\ post \in DOMAIN post_stats
                => /\ post_stats'[post].delivered_count
                         = post_stats[post].delivered_count + success_total
                   /\ post_stats'[post].last_delivered_at = clock
       /\ (pc = "fan_page" /\ pc' = "mark")
          => success_total = 0 /\ UNCHANGED post_stats
       /\ \A p \in DOMAIN post_stats \cap DOMAIN post_stats' :
             /\ post_stats'[p].delivered_count >= post_stats[p].delivered_count
             /\ post_stats'[p] # post_stats[p]
                => pc = "fan_stats" /\ pc' = "mark" /\ p = post]_vars

\* the second fan-out of a post is over: its count has been added to the
\* count of the first
C13_Witness ==
    /\ pc = "mark"
    /\ success_total > 0
    /\ post \in DOMAIN post_stats
    /\ post_stats[post].delivered_count > success_total
    /\ post_stats[post].last_delivered_at = clock

\* C14: in one fan-out no subscriber receives a second delivery attempt,
\* whatever joins, reactivations and deactivations happen while the fan-out
\* pages through the active list.
C14_AtMostOneAttemptPerFanOut ==
    [][Attempts => users[uidx] \notin attempted]_vars

\* C15: the payload carries an action button iff a URL resolves; the URL is
\* the post's link_override if it is present (not None, not empty), else the
\* configured default link; the label is the post's button_text if present,
\* else the configured default label if present, else the built-in default.
C15_ButtonIffUrlResolves ==
    reply_markup.sent
       => LET kb == reply_markup.inline_keyboard
              resolves == Truthy(link_override) \/ Truthy(global_link)
          IN  /\ kb # <<>> <=> resolves
              /\ resolves
                 => /\ Len(kb) = 1
                    /\ kb[1].url = IF Truthy(link_override) THEN link_override
                                    ELSE global_link
                    /\ kb[1].text = IF Truthy(button_text_override)
                                     THEN button_text_override
                                     ELSE IF Truthy(global_button_text)
                                          THEN global_button_text
                                          ELSE DEFAULT_BUTTON_TEXT

\* a post with its own link and label next to a configured link and label has
\* been sent with its own
C15_Witness ==
    /\ reply_markup.sent
    /\ Truthy(link_override) /\ Truthy(global_link) /\ link_override # global_link
    /\ Truthy(button_text_override) /\ Truthy(global_button_text)
    /\ reply_markup.inline_keyboard
          = <<[text |-> button_text_override, url |-> link_override]>>

\* C16: the Due Resolver returns exactly the one-off schedules that are not
\* terminated (is_deleted), not paused and have next_run_at <= now, each
\* once, and changes no table; a terminated schedule is never returned.
C16_DueResolverExact ==
    [][(pc = "tick" /\ pc' # pc)
          => /\ now_ts' = clock
             /\ tickDue' = {s \in DOMAIN schedules :
                               /\ ~schedules[s].is_deleted
                               /\ ~schedules[s].is_paused
                               /\ schedules[s].next_run_at <= clock}
             /\ Len(due') = Cardinality(tickDue')
             /\ \A i \in 1..Len(due') :
                   /\ due'[i].post_id = schedules[due'[i].id].post_id
                   /\ due'[i].repeat_interval = schedules[due'[i].id].repeat_interval
             /\ UNCHANGED dbvars]_vars

\* the resolver returned schedule 1 and left out schedule 2, which is due but
\* paused
C16_Witness ==
    /\ pc = "get_post"
    /\ tickDue = {1}
    /\ schedules[1].next_run_at = now_ts
    /\ schedules[2].is_paused
    /\ ~schedules[2].is_deleted
    /\ schedules[2].next_run_at < now_ts

\* C17: the Weekly Resolver returns exactly the weekly schedules that are
\* not paused, have the bit of the current local weekday (Monday = bit 0) set
\* in days_mask, have hour and minute equal to the current local hour and
\* minute, and have last_run_ymd NULL or different from today's key.
C17_WeeklyResolverExact ==
    [][(pc = "weekly_gate" /\ visited' # None)
          => LET day == clock \div 86400
                 w == (day + 3) % 7
                 hour == (clock % 86400) \div 3600
                 minute == (clock % 3600) \div 60
                 todayKey == YmdOfDay(day)
             IN  /\ weeklyDue' = {x \in DOMAIN weekly_schedules :
                        /\ ~weekly_schedules[x].is_paused
                        /\ (weekly_schedules[x].days_mask \div 2 ^ w) % 2 = 1
                        /\ weekly_schedules[x].hour = hour
                        /\ weekly_schedules[x].minute = minute
                        /\ \/ weekly_schedules[x].last_run_ymd = None
                           \/ weekly_schedules[x].last_run_ymd # todayKey}
                 /\ Len(due') = Cardinality(weeklyDue')
                 /\ UNCHANGED dbvars]_vars

\* on Tuesday 2024-01-02 at 09:00:30 the resolver returned the schedule for
\* Tuesday 09:00 that last ran on Monday 2024-01-01
C17_Witness ==
    /\ pc = "get_post"
    /\ phase = "weekly"
    /\ clock = StartTime + 86400 + 30
    /\ ymd = 20240102
    /\ weeklyDue = {1}
    /\ weekly_schedules[1].days_mask = 2
    /\ weekly_schedules[1].last_run_ymd = 20240101

\* C18: in each tick whose minute now_ts // 60 differs from the recorded
\* minute the Weekly Resolver is run, once, and in a tick whose minute equals
\* the recorded minute it is not run: when a tick is over, its minute is the
\* recorded one, and the first tick has run the resolver.
C18_WeeklyGateOncePerMinute ==
    [][/\ (pc # "sleep" /\ pc' = "sleep")
          => last_weekly_check_minute' = now_ts' \div 60
       /\ (pc = "weekly_gate" /\ pc' # pc /\ last_weekly_check_minute = now_ts \div 60)
          => /\ visited' = None
             /\ UNCHANGED <<last_weekly_check_minute, examined, dbvars>>
       /\ (pc = "weekly_gate" /\ pc' # pc /\ last_weekly_check_minute # now_ts \div 60)
          => /\ last_weekly_check_minute' = now_ts \div 60
             /\ visited = None
             /\ visited' # None \/ raised']_vars

\* C19: a subscriber deactivated by a permanent failure receives no delivery
\* attempt until a contact from that subscriber; the contact makes the
\* subscriber active again with joined_at unchanged, and a fan-out that
\* starts afterwards attempts a delivery to the subscriber.
C19_ReactivatedByContact ==
    [][/\ Attempts => users[uidx] \notin blockedUsers
       /\ \A u \in blockedUsers :
             /\ ~subscribers[u].is_active
             /\ u \notin blockedUsers'
                => /\ subscribers'[u].is_active
                   /\ subscribers'[u].joined_at = subscribers[u].joined_at
       /\ (pc = "fan_page" /\ pc' \in {"fan_stats", "mark"})
          => \A u \in startActive \cap reactivated : u \in attempted]_vars

\* C20: two iterations of the tick loop never overlap: a tick reads the
\* clock and lists the due schedules only when the sleep that followed the
\* previous tick has elapsed, with no schedule being processed and no
\* fan-out in progress; the sleep starts only when the tick has nothing in
\* progress, and the scheduler writes to the store only inside a tick.
C20_TicksDoNotOverlap ==
    [][/\ ticks' # ticks
          => /\ pc = "tick"
             /\ phase = "idle" /\ due = <<>> /\ idx = 0
             /\ post = None /\ users = <<>> /\ uidx = 0
       /\ (pc' = "tick" /\ pc # "tick")
          => /\ pc = "sleep"
             /\ clock' = After(clock, SleepSeconds)
             /\ UNCHANGED dbvars
       /\ (pc' = "sleep" /\ pc # "sleep")
          => /\ phase' = "idle" /\ due' = <<>> /\ idx' = 0
             /\ post' = None /\ users' = <<>> /\ uidx' = 0
       /\ (dbvars' # dbvars /\ events' = events)
          => pc \notin {"tick", "sleep"}]_vars

\* the second tick has listed its due schedules after the first tick fanned
\* out a post and slept
C20_Witness ==
    /\ ticks = 2
    /\ pc \in {"get_post", "weekly_gate"}
    /\ post = None
    /\ \E f \in fired : f[1] = "oneoff" /\ f[3] = Today
    /\ clock >= StartTime + SleepSeconds
    /\ now_ts = clock

\* the step is taken by the scheduler task
SchedulerStep == <<pc, idx, uidx, offset>>' # <<pc, idx, uidx, offset>>

\* C21: firing a weekly schedule changes only its last_run_ymd, set to the
\* key of the date the Weekly Resolver evaluated: hour, minute, days_mask,
\* is_paused and post_id are unchanged, no other schedule is written, and no
\* step of the scheduler removes or pauses a weekly schedule.
C21_WeeklyMarkChangesLastRunOnly ==
    [][/\ (Marks /\ phase = "weekly" /\ due[idx].id \in DOMAIN weekly_schedules)
          => /\ visited # None
             /\ weekly_schedules'
                   = [weekly_schedules EXCEPT
                         ![due[idx].id].last_run_ymd = YmdOfDay((visited * 60) \div 86400)]
             /\ UNCHANGED schedules
       /\ SchedulerStep
          => /\ DOMAIN weekly_schedules' = DOMAIN weekly_schedules
             /\ \A w \in DOMAIN weekly_schedules :
                   /\ weekly_schedules'[w].hour = weekly_schedules[w].hour
                   /\ weekly_schedules'[w].minute = weekly_schedules[w].minute
                   /\ weekly_schedules'[w].days_mask = weekly_schedules[w].days_mask
                   /\ weekly_schedules'[w].is_paused = weekly_schedules[w].is_paused
                   /\ weekly_schedules'[w].post_id = weekly_schedules[w].post_id
                   /\ weekly_schedules'[w].last_run_ymd # weekly_schedules[w].last_run_ymd
                      => Marks /\ phase = "weekly" /\ due[idx].id = w]_vars

\* weekly schedule 1, never run before, has been fired and marked today and
\* is otherwise as it was created
C21_Witness ==
    /\ <<"weekly", 1>> \in processed
    /\ <<"weekly", 1, Today>> \in fired
    /\ 1 \in DOMAIN weekly_schedules
    /\ \E m \in {0, 1} : weekly_schedules[1] = Weekly(3, 9, m, 1, Today)

\* C22: no step removes a subscriber: a user that has a record keeps it with
\* joined_at unchanged, whatever contacts and fan-outs follow, and a record
\* appears only by a contact of that user, active and with joined_at the time
\* of that (first) contact.
C22_SubscribersNeverDeleted ==
    [][/\ \A u \in DOMAIN subscribers :
             /\ u \in DOMAIN subscribers'
             /\ subscribers'[u].joined_at = subscribers[u].joined_at
       /\ \A u \in DOMAIN subscribers' \ DOMAIN subscribers :
             /\ subscribers'[u] = [is_active |-> TRUE, joined_at |-> clock]
             /\ ~SchedulerStep
             /\ DOMAIN subscribers' = DOMAIN subscribers \cup {u}]_vars

\* user 3 wrote to the bot when the process started, a fan-out deactivated
\* the user and a later contact has activated the user again: the record
\* still has the time of the first contact
C22_Witness ==
    /\ 3 \in DOMAIN subscribers
    /\ 3 \in reactivated
    /\ subscribers[3].is_active
    /\ subscribers[3].joined_at = StartTime
    /\ clock > StartTime

\* C23: when the contact of a subscriber is handled after the delivery
\* attempt to that subscriber has returned a permanent failure and before
\* the deactivation that follows it, the subscriber is active once the
\* deactivation has completed as well.
C23_ContactAfterFailureLeavesActive ==
    [][(/\ pc = "fan_deact"
        /\ pc' # pc
        /\ events' = events
        /\ users[uidx] \in lateContact)
          => subscribers'[users[uidx]].is_active]_vars

\* C24: the Weekly Resolver evaluates the time the tick read at its start:
\* the minute it matches the weekly schedules against is now_ts // 60, the
\* minute of the once-per-minute gate, and today's key is the date of now_ts.
C24_WeeklyResolverUsesTickTime ==
    [][ResolvesWeekly
          => /\ visited' = now_ts \div 60
             /\ due' # <<>> => ymd' = YmdOfDay(DayOf(now_ts))]_vars

\* a store call raises inside the fan-out of the one-off schedule being
\* processed
FanOutAborted ==
    /\ pc \in {"fan_page", "fan_deact", "fan_stats"}
    /\ phase = "oneoff"
    /\ pc' = "sleep"

\* C25: the scheduler writes a one-off schedule only in the mark that follows
\* its completed fan-out (or the lookup that found no post); when a store
\* call raises inside the fan-out, schedules and post_stats are unchanged,
\* the schedule is still due, the next tick's Due Resolver returns it unless
\* it has been terminated or paused meanwhile, and the fan-out that then
\* starts begins again at offset 0 with no recipient attempted.
C25_AbortedFanOutLeavesScheduleDue ==
    [][/\ (SchedulerStep /\ schedules' # schedules)
          => pc \in {"mark", "mark_missing"} /\ phase = "oneoff"
       /\ (pc' = "mark" /\ pc # "mark")
          => pc \in {"fan_page", "fan_stats"} /\ users' = <<>>
       /\ FanOutAborted
          => /\ UNCHANGED <<schedules, post_stats>>
             /\ <<"oneoff", due[idx].id>> \in failed'
             /\ due[idx].id \in DOMAIN schedules
                => \/ schedules[due[idx].id].is_deleted
                   \/ schedules[due[idx].id].is_paused
                   \/ schedules[due[idx].id].next_run_at <= clock
       /\ (ticks' # ticks /\ pc' # "sleep")
          => \A s \in DOMAIN schedules :
                (/\ <<"oneoff", s>> \in failed
                 /\ ~schedules[s].is_deleted
                 /\ ~schedules[s].is_paused)
                   => s \in tickDue'
       /\ StartsFanOut
          => offset' = 0 /\ success_total' = 0 /\ attempted' = {}]_vars

\* the fan-out of schedule 1 made a slow delivery in the first tick and was
\* then aborted by a store call that raised: nothing was counted or marked,
\* and the second tick is fanning the schedule out again from the start
C25_Witness ==
    /\ ticks = 2
    /\ pc = "fan_send"
    /\ phase = "oneoff"
    /\ due[idx].id = 1
    /\ offset = 0
    /\ attempted = {}
    /\ raised
    /\ events = 2
    /\ clock = StartTime + ShortSend + SleepSeconds
    /\ schedules[1].last_run_at = None
    /\ ~schedules[1].is_deleted
    /\ \A p \in DOMAIN post_stats : post_stats[p].delivered_count = 0

\* C26: termination of a one-off schedule is absorbing: a schedule that is
\* terminated (is_deleted, set by the mark of a schedule without repeat or by
\* the admin's delete) is terminated after every step that leaves its row in
\* the table, also the mark with a repeat interval > 0 that completes after
\* the admin terminated the schedule during its fan-out.
C26_TerminationIsAbsorbing ==
    [][\A s \in DOMAIN schedules :
          (schedules[s].is_deleted /\ s \in DOMAIN schedules')
             => schedules'[s].is_deleted]_vars

\* the admin terminated the hourly schedule 2 while the tick was processing
\* it; the mark that followed advanced next_run_at by the interval and the
\* schedule is still terminated
C26_Witness ==
    /\ 2 \in lateMarks
    /\ <<"oneoff", 2, Today>> \in fired
    /\ schedules[2].repeat_interval = 3600
    /\ schedules[2].last_run_at # None
    /\ schedules[2].next_run_at = StartTime + 3600
    /\ schedules[2].is_deleted

\* C27: no fan-out of a one-off schedule starts once the admin's terminate
\* (or a pause) of that schedule has completed, also when the terminate is
\* handled after the tick read its due list and before the schedule's turn.
C27_NoFanOutAfterTerminate ==
    [][(StartsFanOut /\ phase = "oneoff" /\ due[idx].id \in DOMAIN schedules)
          => /\ ~schedules[due[idx].id].is_deleted
             /\ ~schedules[due[idx].id].is_paused]_vars

\* the scheduled time of the overdue schedule when the process started
FirstRunAt ==
    StartTime - OverdueIntervals * 3600 - ((StartTime - schedules[1].next_run_at) % 3600)

\* the number of marks that have advanced the overdue schedule
Advances == (schedules[1].next_run_at - FirstRunAt) \div 3600

\* the Due Resolver returns its list
ResolvesDue == pc = "tick" /\ pc' \in {"get_post", "weekly_gate"}

\* what every tick does with a repeating schedule: the schedules of its due
\* list are distinct and taken in turn, once each; the mark advances
\* next_run_at by exactly one interval; the resolver returns the schedule
\* exactly while next_run_at <= now
OnceEachTick ==
    /\ ResolvesDue
       => /\ Len(due') = Cardinality(tickDue')
          /\ 1 \in tickDue' <=> schedules[1].next_run_at <= clock
    /\ (pc' = "get_post" /\ phase' = "oneoff" /\ ticks' = ticks /\ pc # "get_post")
       => idx' = idx + 1 /\ due' = due
    /\ (StartsFanOut /\ phase = "oneoff")
       => \A j \in 1..(idx - 1) : due[j].id # due[idx].id
    /\ (Marks /\ phase = "oneoff")
       => schedules'[1].next_run_at = schedules[1].next_run_at + 3600

C29_GateRecordedBeforeWeeklyRun ==
    [][/\ last_weekly_check_minute' # last_weekly_check_minute
          => /\ pc = "weekly_gate"
             /\ last_weekly_check_minute' = now_ts \div 60
             /\ \/ last_weekly_check_minute = None
                \/ last_weekly_check_minute < now_ts \div 60
       /\ (pc = "weekly_gate" /\ pc' # pc /\ last_weekly_check_minute # now_ts \div 60)
          => last_weekly_check_minute' = now_ts \div 60
       /\ (phase = "weekly" /\ pc' = "sleep")
          => last_weekly_check_minute' = now_ts \div 60
       /\ (pc = "weekly_gate" /\ pc' # pc /\ last_weekly_check_minute = now_ts \div 60)
          => /\ pc' = "sleep"
             /\ visited' = None
             /\ UNCHANGED <<weekly_schedules, examined, fired>>
       /\ (StartsFanOut /\ phase = "weekly") => visited # None]_vars

\* the fan-out of a weekly schedule was aborted by a store call that raised,
\* the schedule was left unmarked, and the next tick, in the same minute,
\* has ended without running the Weekly Resolver
C29_Witness ==
    /\ pc = "sleep"
    /\ ticks = 2
    /\ raised
    /\ events = 1
    /\ visited = None
    /\ last_weekly_check_minute = now_ts \div 60
    /\ \E w \in DOMAIN weekly_schedules :
          /\ <<"weekly", w, Today>> \in fired
          /\ weekly_schedules[w].last_run_ymd # Today
          /\ ~weekly_schedules[w].is_paused
          /\ MatchesMinute(w, now_ts \div 60)

\* the tick ends because a store call of its one-off phase raised
OneOffPhaseRaises == pc' = "sleep" /\ (phase = "oneoff" \/ pc = "tick")

\* the tick leaves the gate by running the Weekly Resolver (which may raise)
RunsWeeklyResolver ==
    /\ pc = "weekly_gate"
    /\ pc' # pc
    /\ \/ visited' # None
       \/ raised' /\ events' = events + 1

\* a tick whose one-off phase raises runs no Weekly Resolver and leaves the
\* recorded minute unchanged
RaisedTickLeavesGate ==
    OneOffPhaseRaises
       => /\ UNCHANGED <<last_weekly_check_minute, examined, weekly_schedules>>
          /\ visited' = None

\* C30 as amended: if the one-off phase of a tick raises, the Weekly
\* Resolver is not run in that tick and the recorded minute is unchanged, so
\* the next tick whose one-off phase completes runs the Weekly Resolver, even
\* when it falls in the same minute, unless that minute is the recorded one
\* (an earlier tick recorded it).
C30_RaisedTickLeavesGateOpen ==
    [][/\ RaisedTickLeavesGate
       /\ (pc = "weekly_gate" /\ pc' # pc)
          => (RunsWeeklyResolver <=> last_weekly_check_minute # now_ts \div 60)]_vars

\* the one-off phase of the first tick raised; the second tick, in the same
\* minute, completed its one-off phase and has run the Weekly Resolver
C30_Witness ==
    /\ ticks = 2
    /\ raised
    /\ events = 1
    /\ now_ts \div 60 = StartTime \div 60
    /\ visited = now_ts \div 60
    /\ last_weekly_check_minute = now_ts \div 60
    /\ <<"oneoff", 1>> \in processed

\* C30 as stated: the tick that follows a tick whose one-off phase raised
\* runs the Weekly Resolver when its one-off phase completes, also in the
\* same minute: it never finds its minute recorded.
C30_NextTickRunsWeekly ==
    [][/\ RaisedTickLeavesGate
       /\ (ticks' # ticks /\ \E f \in failed : f[1] = "oneoff")
          => last_weekly_check_minute # clock \div 60]_vars

\* _send_post_to_all_subscribers is inside its paging loop
InFanOut == pc \in {"fan_page", "fan_send", "fan_deact"}

\* send_post_to_all_subscribers is inside its paging loop
InBroadcast == b_pc \in {"b_page", "b_send", "b_deact"}

\* C31: every fan-out terminates: whatever the outcomes of the delivery
\* attempts, each paging loop is left after finitely many pages (the offset
\* never passes the number of subscriber records by a whole page), and it is
\* left through an empty page only; only after the empty page are the
\* statistics of the post written and the counts returned.
C31_FanOutTerminates ==
    /\ InFanOut ~> ~InFanOut
    /\ InBroadcast ~> ~InBroadcast
    /\ [](offset <= Cardinality(DOMAIN subscribers) + batch - 1)
    /\ [](b_offset <= Cardinality(DOMAIN subscribers) + batch - 1)
    /\ [][/\ (InFanOut /\ ~InFanOut')
             => pc = "fan_page" /\ users' = <<>> /\ pc' \in {"fan_stats", "mark"}
          /\ post_stats' # post_stats => pc = "fan_stats"
          /\ (InBroadcast /\ ~InBroadcast')
             => /\ b_pc = "b_page" /\ b_users' = <<>> /\ b_pc' = "done"
                /\ stats' = [sent |-> sent_count, blocked |-> blocked_count]
          /\ reported' # reported => b_pc = "b_page" /\ b_pc' = "done"]_vars

\* the fan-out of schedule 1 and a broadcast have both ended through an
\* empty page: the broadcast read three pages and delivered to both
\* subscribers, the fan-out delivered to one and the other had blocked the
\* bot
C31_Witness ==
    /\ pc = "sleep"
    /\ <<"oneoff", 1>> \in processed
    /\ post_stats[1].delivered_count = 1
    /\ Cardinality(blockedUsers) = 1
    /\ b_pc = "done"
    /\ b_offset = 2 * batch
    /\ stats = [sent |-> 2, blocked |-> 0]

\* C32: the mark that follows the fan-out of a one-off schedule leaves its
\* post_id, repeat_interval and is_paused unchanged and writes no other
\* schedule: with repeat_interval > 0 only last_run_at and next_run_at change
\* (next_run_at by the interval) and is_deleted is unchanged; with no
\* interval (NULL or 0) only last_run_at and is_deleted change, is_deleted
\* to true, and next_run_at is unchanged.
C32_OneOffMarkFrame ==
    [][(Marks /\ pc = "mark" /\ phase = "oneoff" /\ due[idx].id \in DOMAIN schedules)
          => LET s == due[idx].id
                 old == schedules[s]
                 new == schedules'[s]
             IN  /\ DOMAIN schedules' = DOMAIN schedules
                 /\ \A t \in DOMAIN schedules \ {s} : schedules'[t] = schedules[t]
                 /\ UNCHANGED weekly_schedules
                 /\ new.post_id = old.post_id
                 /\ new.repeat_interval = old.repeat_interval
                 /\ new.is_paused = old.is_paused
                 /\ new.last_run_at = clock
                 /\ IF old.repeat_interval # None /\ old.repeat_interval > 0
                    THEN /\ new.next_run_at = old.next_run_at + old.repeat_interval
                         /\ new.is_deleted = old.is_deleted
                    ELSE /\ new.next_run_at = old.next_run_at
                         /\ new.is_deleted]_vars

\* one tick has fired and marked both schedules: schedule 1, without repeat,
\* is terminated with next_run_at as it was; the hourly schedule 2 is armed
\* for one hour after its scheduled time
C32_Witness ==
    /\ {<<"oneoff", 1>>, <<"oneoff", 2>>} \subseteq processed
    /\ missing = {}
    /\ lateMarks = {}
    /\ schedules[1].last_run_at # None
    /\ \E r1 \in {None, 0} :
          schedules[1] = [Schedule(1, StartTime - 65, r1) EXCEPT
                             !.last_run_at = schedules[1].last_run_at,
                             !.is_deleted = TRUE]
    /\ schedules[2].last_run_at # None
    /\ schedules[2] = [Schedule(2, StartTime, 3600) EXCEPT
                          !.last_run_at = schedules[2].last_run_at,
                          !.next_run_at = StartTime + 3600]

====
